---- MODULE Spec2Model ----
(***************************************************************************)
(* State-machine model of spowtd.load: load_data and the three populate_*  *)
(* functions it calls (src/spowtd/load.py).  One run of load_data against  *)
(* an empty store is modelled statement by statement; the three input      *)
(* files are read when the code reads them.                                *)
(*                                                                         *)
(* Epochs are integers.  The value column of a row is never inspected by   *)
(* the code except by the interpolation arithmetic, so the i-th data row   *)
(* of a file carries the value ValueOf(i), which makes rows with the same  *)
(* epoch distinguishable.  Interpolated levels are exact rationals         *)
(* [num, den].                                                             *)
(***************************************************************************)
EXTENDS Integers, Sequences, FiniteSets, TLC

VARIABLES
    pc,                 \* position in load_data
    error,              \* the exception that ended the run, [type, at, msg, arg]
    header,             \* local `header` (first column, a sequence of characters)
    schema,             \* "absent" or "committed": the tables of schema.sql
    in_txn,             \* the connection has an open (uncommitted) transaction
    ris, ets, wls,      \* staging tables as the connection sees them
    tg_tbl,             \* table time_grid: rows of time_step_s
    grid_time,          \* table grid_time: rows of epoch
    rainfall_intensity, \* table rainfall_intensity
    water_level,        \* table water_level
    time_grid,          \* local time_grid returned by populate_grid_time
    time_step,          \* local time_step returned by populate_grid_time
    zeta_idx,           \* interval index np.interp found for each grid point
    durable             \* what is committed, visible to other consumers

vars == <<pc, error, header, schema, in_txn, ris, ets, wls, tg_tbl, grid_time,
          rainfall_intensity, water_level, time_grid, time_step, zeta_idx,
          durable>>

----------------------------------------------------------------------------
(* Bounds of the model *)

EpochMax == 3
MaxRain == 3
MaxZeta == 2

Epochs == 0..EpochMax

ValueOf(i) == 10 * i

\* The data rows of a file after generate_timestamped_rows: at most n rows,
\* any epochs in any order, repeated epochs allowed.
RowSeqs(n) ==
    UNION { { [i \in 1..k |-> [epoch |-> f[i], val |-> ValueOf(i)]] :
              f \in [1..k -> Epochs] } : k \in 0..n }

\* The evapotranspiration rows: staged, and read by nothing modelled here
EtFiles ==
    { <<[epoch |-> 1, val |-> ValueOf(1)], [epoch |-> 0, val |-> ValueOf(2)]>> }

\* First column of a header row, as a sequence of characters.
Headers ==
    { <<"D", "a", "t", "e", "T", "I", "M", "E", " ", "u", "t", "c">>,
      <<"D", "A", "T", "E">>,
      <<"T", "i", "m", "e">> }

----------------------------------------------------------------------------
(* Pure helpers *)

\* str.lower on the characters used
LowerChar(c) ==
    CASE c = "D" -> "d"
      [] c = "A" -> "a"
      [] c = "T" -> "t"
      [] c = "E" -> "e"
      [] c = "I" -> "i"
      [] c = "M" -> "m"
      [] OTHER -> c

Lower(s) == [i \in 1..Len(s) |-> LowerChar(s[i])]

StartsWith(s, p) == Len(s) >= Len(p) /\ SubSeq(s, 1, Len(p)) = p

DatetimePrefix == <<"d", "a", "t", "e", "t", "i", "m", "e">>

\* header[0].lower().startswith('datetime')
HeaderOk(h) == StartsWith(Lower(h), DatetimePrefix)

NoError == [type |-> "none", at |-> "none", msg |-> "", arg |-> <<>>]

Raised(type, at, msg, arg) == [type |-> type, at |-> at, msg |-> msg, arg |-> arg]

NonuniformMsg == "Nonuniform time steps in rainfall data"

EmptyStore ==
    [schema |-> "absent", ris |-> <<>>, ets |-> <<>>, wls |-> <<>>,
     tg_tbl |-> <<>>, grid_time |-> <<>>, rainfall_intensity |-> <<>>,
     water_level |-> <<>>]

\* INSERT of rows into a table: every row is accepted and appended
Insert(table, rows) == table \o rows

----------------------------------------------------------------------------
(* populate_grid_time *)

RECURSIVE SeqMin(_)
SeqMin(s) ==
    IF Len(s) = 1 THEN s[1]
    ELSE LET m == SeqMin(Tail(s)) IN IF s[1] < m THEN s[1] ELSE m

RECURSIVE SeqMax(_)
SeqMax(s) ==
    IF Len(s) = 1 THEN s[1]
    ELSE LET m == SeqMax(Tail(s)) IN IF s[1] > m THEN s[1] ELSE m

EpochsOf(table) == [i \in 1..Len(table) |-> table[i].epoch]

\* SELECT min(epoch) AS min_t_zeta, max(epoch) AS max_t_zeta (table not empty)
MinTZeta(w) == SeqMin(EpochsOf(w))
MaxTZeta(w) == SeqMax(EpochsOf(w))

\* The join with the upper end of the window left out (epoch < max_t_zeta)
JoinsWindow_StrictUpper(e, w) ==
    w # <<>> /\ e >= MinTZeta(w) /\ e < MaxTZeta(w)

\* The join condition; min and max of an empty table are NULL and no row joins
JoinsWindow(e, w) == w # <<>> /\ e >= MinTZeta(w) /\ e <= MaxTZeta(w)

RECURSIVE InsertAsc(_, _)
InsertAsc(e, s) ==
    IF s = <<>> THEN <<e>>
    ELSE IF e <= s[1] THEN <<e>> \o s
    ELSE <<s[1]>> \o InsertAsc(e, Tail(s))

\* ORDER BY epoch
RECURSIVE OrderByEpoch(_)
OrderByEpoch(s) ==
    IF s = <<>> THEN <<>> ELSE InsertAsc(s[1], OrderByEpoch(Tail(s)))

RECURSIVE WhereJoins(_, _)
WhereJoins(es, w) ==
    IF es = <<>> THEN <<>>
    ELSE IF JoinsWindow(es[1], w) THEN <<es[1]>> \o WhereJoins(Tail(es), w)
    ELSE WhereJoins(Tail(es), w)

\* The list comprehension over the query: the rainfall epochs that join the
\* water-level window, in ascending order, repeated epochs kept
SelectGridEpochs(r, w) == OrderByEpoch(WhereJoins(EpochsOf(r), w))

\* np.diff
Diff(g) == [i \in 1..(Len(g) - 1) |-> g[i + 1] - g[i]]

RECURSIVE SortedSet(_)
SortedSet(S) ==
    IF S = {} THEN <<>>
    ELSE LET m == CHOOSE x \in S : \A y \in S : x <= y
         IN  <<m>> \o SortedSet(S \ {m})

\* sorted(set(np.diff(time_grid)))
DeltaT(g) == SortedSet({ Diff(g)[i] : i \in 1..(Len(g) - 1) })

\* The check reduced to `if not delta_t`
StepCheckFails_OnlyEmpty(delta_t) == Len(delta_t) = 0

\* The check reduced to `if len(delta_t) > 1`
StepCheckFails_OnlyMany(delta_t) == Len(delta_t) > 1

\* len(delta_t) != 1
StepCheckFails(delta_t) == Len(delta_t) # 1

\* time_grid.append(time_grid[-1] + time_step)
CloseGrid(g, step) == Append(g, g[Len(g)] + step)

----------------------------------------------------------------------------
(* populate_rainfall_intensity *)

\* The rows the INSERT ... SELECT produces for one staged row: one per
\* grid_time row it joins USING (epoch), subject to WHERE ris.epoch <= last
RowsFor(row, gt, step, last) ==
    LET hits == SelectSeq(gt, LAMBDA e : e = row.epoch /\ row.epoch <= last)
    IN  [i \in 1..Len(hits) |->
            [from_epoch |-> row.epoch, thru_epoch |-> row.epoch + step,
             rainfall_intensity_mm_h |-> row.val]]

RECURSIVE BinRainfall(_, _, _, _)
BinRainfall(r, gt, step, last) ==
    IF r = <<>> THEN <<>>
    ELSE RowsFor(r[1], gt, step, last) \o BinRainfall(Tail(r), gt, step, last)

----------------------------------------------------------------------------
(* populate_water_level: np.interp(time_grid[:-1], zeta_t, zeta_mm) *)

LIKELY_IN_CACHE_SIZE == 8

RECURSIVE Bisect(_, _, _, _)
Bisect(key, arr, imin, imax) ==
    IF imin < imax
    THEN LET imid == imin + ((imax - imin) \div 2)
         IN  IF key >= arr[imid + 1]
             THEN Bisect(key, arr, imid + 1, imax)
             ELSE Bisect(key, arr, imin, imid)
    ELSE imin - 1

RECURSIVE LinearSearch(_, _, _)
LinearSearch(key, arr, i) ==
    IF i < Len(arr) /\ key >= arr[i + 1]
    THEN LinearSearch(key, arr, i + 1)
    ELSE i - 1

\* numpy's binary_search_with_guess, 0-based as in numpy: -1 when key is below
\* arr[0], len when above arr[len-1], else an index j in 0..len-1.  arr[k] of
\* numpy is arr[k + 1] here.
BinarySearchWithGuess(key, arr, guess0) ==
    LET len == Len(arr)
        g1 == IF guess0 > len - 3 THEN len - 3 ELSE guess0
        guess == IF g1 < 1 THEN 1 ELSE g1
    IN  IF key > arr[len] THEN len
        ELSE IF key < arr[1] THEN -1
        ELSE IF len <= 4 THEN LinearSearch(key, arr, 1)
        ELSE IF key < arr[guess + 1]
             THEN IF key < arr[guess]
                  THEN Bisect(key, arr,
                              IF guess > LIKELY_IN_CACHE_SIZE
                                 /\ key >= arr[guess - LIKELY_IN_CACHE_SIZE + 1]
                              THEN guess - LIKELY_IN_CACHE_SIZE ELSE 0,
                              guess - 1)
                  ELSE guess - 1
             ELSE IF key < arr[guess + 2] THEN guess
             ELSE IF key < arr[guess + 3] THEN guess + 1
             ELSE Bisect(key, arr, guess + 2,
                         IF guess < len - LIKELY_IN_CACHE_SIZE - 1
                            /\ key < arr[guess + LIKELY_IN_CACHE_SIZE + 1]
                         THEN guess + LIKELY_IN_CACHE_SIZE ELSE len)

Exact(v) == [num |-> v, den |-> 1]

\* The interval index np.interp uses for x (xp of length 1 is handled apart)
InterpIndex(x, xp, guess) ==
    IF Len(xp) = 1
    THEN (IF x < xp[1] THEN -1 ELSE IF x > xp[1] THEN 1 ELSE 0)
    ELSE BinarySearchWithGuess(x, xp, guess)

\* The value np.interp gives x once the interval index j is known
InterpValue(x, xp, fp, j) ==
    IF j = -1 THEN Exact(fp[1])
    ELSE IF j = Len(xp) THEN Exact(fp[Len(fp)])
    ELSE IF j = Len(xp) - 1 THEN Exact(fp[j + 1])
    ELSE IF xp[j + 1] = x THEN Exact(fp[j + 1])
    ELSE [num |-> (fp[j + 2] - fp[j + 1]) * (x - xp[j + 1])
                    + fp[j + 1] * (xp[j + 2] - xp[j + 1]),
          den |-> xp[j + 2] - xp[j + 1]]

\* The loop of np.interp over x, the guess carried from one point to the next
RECURSIVE InterpIndices(_, _, _)
InterpIndices(xs, xp, guess) ==
    IF xs = <<>> THEN <<>>
    ELSE LET j == InterpIndex(xs[1], xp, guess)
         IN  <<j>> \o InterpIndices(Tail(xs), xp, IF Len(xp) = 1 THEN guess ELSE j)

\* time_grid[:-1]
AllButLast(g) == SubSeq(g, 1, Len(g) - 1)

\* cursor.fetchall() on SELECT ... FROM water_level_staging, which has no
\* ORDER BY: the rows of the staging table in the order they were staged
FetchAll(table) == table

----------------------------------------------------------------------------
(* load_data, statement by statement *)

Unassigned == -1

Init ==
    /\ pc = "schema"
    /\ error = NoError
    /\ header = <<>>
    /\ schema = "absent"
    /\ in_txn = FALSE
    /\ ris = <<>> /\ ets = <<>> /\ wls = <<>>
    /\ tg_tbl = <<>> /\ grid_time = <<>>
    /\ rainfall_intensity = <<>> /\ water_level = <<>>
    /\ time_grid = <<>> /\ time_step = Unassigned
    /\ zeta_idx = <<>>
    /\ durable = EmptyStore

\* What the connection sees: committed and pending changes together
Snapshot ==
    [schema |-> schema, ris |-> ris, ets |-> ets, wls |-> wls,
     tg_tbl |-> tg_tbl, grid_time |-> grid_time,
     rainfall_intensity |-> rainfall_intensity, water_level |-> water_level]

\* cursor.executescript(schema_file.read()): sqlite3 runs the script outside
\* any transaction it manages, so the tables it creates are committed as the
\* script runs
CreateSchema ==
    /\ pc = "schema"
    /\ schema' = "committed"
    /\ durable' = [durable EXCEPT !.schema = "committed"]
    /\ pc' = "precip"
    /\ UNCHANGED <<error, header, in_txn, ris, ets, wls, tg_tbl, grid_time,
                   rainfall_intensity, water_level, time_grid, time_step,
                   zeta_idx>>

\* Where the run goes after reading one file: h is the header's first column,
\* rows the data rows generate_timestamped_rows yields before it stops, ok
\* whether it stops at the end of the file (TRUE) or by raising on a row
AfterFile(h, ok, at, next) ==
    /\ header' = h
    /\ IF ~HeaderOk(h)
       THEN /\ pc' = "failed"
            /\ error' = Raised("AssertionError", at, "", <<>>)
            /\ in_txn' = in_txn
       ELSE /\ in_txn' = TRUE
            /\ IF ok
               THEN pc' = next /\ error' = error
               ELSE /\ pc' = "failed"
                    /\ error' = Raised("ValueError", at, "timestamp", <<>>)

\* The rows of a file staged before its header is checked
Staged_BeforeCheck(table, h, rows) == Insert(table, rows)

\* executemany on the staging table, reached only past the header's assert
Staged(table, h, rows) == IF HeaderOk(h) THEN Insert(table, rows) ELSE table

StagePrecipitation ==
    /\ pc = "precip"
    /\ \E h \in Headers, rows \in RowSeqs(MaxRain), ok \in BOOLEAN :
          /\ AfterFile(h, ok, "precip", "et")
          /\ ris' = Staged(ris, h, rows)
    /\ UNCHANGED <<schema, ets, wls, tg_tbl, grid_time, rainfall_intensity,
                   water_level, time_grid, time_step, zeta_idx, durable>>

StageEvapotranspiration ==
    /\ pc = "et"
    /\ \E h \in Headers, rows \in EtFiles, ok \in BOOLEAN :
          /\ AfterFile(h, ok, "et", "wl")
          /\ ets' = Staged(ets, h, rows)
    /\ UNCHANGED <<schema, ris, wls, tg_tbl, grid_time, rainfall_intensity,
                   water_level, time_grid, time_step, zeta_idx, durable>>

StageWaterLevel ==
    /\ pc = "wl"
    /\ \E h \in Headers, rows \in RowSeqs(MaxZeta), ok \in BOOLEAN :
          /\ AfterFile(h, ok, "wl", "grid")
          /\ wls' = Staged(wls, h, rows)
    /\ UNCHANGED <<schema, ris, ets, tg_tbl, grid_time, rainfall_intensity,
                   water_level, time_grid, time_step, zeta_idx, durable>>

PopulateGridTime ==
    /\ pc = "grid"
    /\ LET g == SelectGridEpochs(ris, wls)
           delta_t == DeltaT(g)
       IN  IF StepCheckFails(delta_t)
           THEN /\ pc' = "failed"
                /\ error' = Raised("ValueError", "grid", NonuniformMsg, delta_t)
                /\ UNCHANGED <<tg_tbl, grid_time, time_grid, time_step>>
           ELSE IF delta_t = <<>> \/ g = <<>>
           THEN \* delta_t[0] or time_grid[-1] of an empty list
                /\ pc' = "failed"
                /\ error' = Raised("IndexError", "grid", "", <<>>)
                /\ UNCHANGED <<tg_tbl, grid_time, time_grid, time_step>>
           ELSE /\ time_step' = delta_t[1]
                /\ tg_tbl' = Insert(tg_tbl, <<delta_t[1]>>)
                /\ time_grid' = CloseGrid(g, delta_t[1])
                /\ grid_time' = Insert(grid_time, CloseGrid(g, delta_t[1]))
                /\ pc' = "rain"
                /\ error' = error
    /\ UNCHANGED <<header, schema, in_txn, ris, ets, wls, rainfall_intensity,
                   water_level, zeta_idx, durable>>

PopulateRainfallIntensity ==
    /\ pc = "rain"
    /\ rainfall_intensity' =
          Insert(rainfall_intensity,
                 BinRainfall(ris, grid_time, time_step,
                             time_grid[Len(time_grid) - 1]))
    /\ pc' = "zeta"
    /\ UNCHANGED <<error, header, schema, in_txn, ris, ets, wls, tg_tbl,
                   grid_time, water_level, time_grid, time_step, zeta_idx,
                   durable>>

PopulateWaterLevel ==
    /\ pc = "zeta"
    /\ LET fetched == FetchAll(wls)
       IN  IF fetched = <<>>
           THEN \* zip(*[]) unpacks nothing
                /\ pc' = "failed"
                /\ error' = Raised("ValueError", "zeta", "unpack", <<>>)
                /\ UNCHANGED <<water_level, zeta_idx>>
           ELSE LET zeta_t == EpochsOf(fetched)
                    zeta_mm == [i \in 1..Len(fetched) |-> fetched[i].val]
                    x == AllButLast(time_grid)
                    idx == InterpIndices(x, zeta_t, 0)
                IN  /\ zeta_idx' = idx
                    /\ water_level' =
                          Insert(water_level,
                                 [i \in 1..Len(x) |->
                                     [epoch |-> x[i],
                                      zeta_mm |-> InterpValue(x[i], zeta_t,
                                                              zeta_mm, idx[i])]])
                    /\ pc' = "commit"
                    /\ error' = error
    /\ UNCHANGED <<header, schema, in_txn, ris, ets, wls, tg_tbl, grid_time,
                   rainfall_intensity, time_grid, time_step, durable>>

\* cursor.close(); connection.commit()
Commit ==
    /\ pc = "commit"
    /\ durable' = Snapshot
    /\ in_txn' = FALSE
    /\ pc' = "committed"
    /\ UNCHANGED <<error, header, schema, ris, ets, wls, tg_tbl, grid_time,
                   rainfall_intensity, water_level, time_grid, time_step,
                   zeta_idx>>

Next ==
    \/ CreateSchema
    \/ StagePrecipitation
    \/ StageEvapotranspiration
    \/ StageWaterLevel
    \/ PopulateGridTime
    \/ PopulateRainfallIntensity
    \/ PopulateWaterLevel
    \/ Commit

Spec == Init /\ [][Next]_vars

----------------------------------------------------------------------------
(* Vocabulary of the properties, stated on the staged data itself *)

\* e lies in [min_w, max_w] of the staged water-level epochs
InWindow(e) ==
    \E a, b \in DOMAIN wls : wls[a].epoch <= e /\ e <= wls[b].epoch

\* The staged rainfall rows whose epoch lies in the window
WindowRows == { i \in DOMAIN ris : InWindow(ris[i].epoch) }

\* Rows i, j of the set W are neighbours when j follows i in ascending order
\* of epoch
Neighbours(W, i, j) ==
    /\ i # j
    /\ ris[i].epoch <= ris[j].epoch
    /\ ~ \E m \in W :
            ris[i].epoch < ris[m].epoch /\ ris[m].epoch < ris[j].epoch

\* The distinct consecutive differences of the rainfall epochs in the window
Spacings ==
    LET W == WindowRows
    IN  { ris[q[2]].epoch - ris[q[1]].epoch :
            q \in { p \in W \X W : Neighbours(W, p[1], p[2]) } }

Occurrences(seq, e) == Cardinality({ i \in DOMAIN seq : seq[i] = e })

\* All three files were staged and populate_grid_time has been reached
StagedAll ==
    \/ pc \in {"grid", "rain", "zeta", "commit", "committed"}
    \/ pc = "failed" /\ error.at \in {"grid", "zeta"}

\* populate_grid_time has returned (grid, step)
GridReturned == time_grid # <<>>

\* populate_grid_time has run, whatever its outcome
GridAttempted == StagedAll /\ pc # "grid"

NothingAligned ==
    /\ tg_tbl = <<>> /\ grid_time = <<>>
    /\ rainfall_intensity = <<>> /\ water_level = <<>>
    /\ durable.tg_tbl = <<>> /\ durable.grid_time = <<>>
    /\ durable.rainfall_intensity = <<>> /\ durable.water_level = <<>>

NonuniformError(e) ==
    e.type = "ValueError" /\ e.at = "grid" /\ e.msg = NonuniformMsg

\* The first column of a header does not start with "datetime" in any case
Mismatch(h) ==
    \E i \in 1..8 :
        \/ i > Len(h)
        \/ h[i] \notin
             { <<"d", "a", "t", "e", "t", "i", "m", "e">>[i],
               <<"D", "A", "T", "E", "T", "I", "M", "E">>[i] }

\* A header has been read, and `header` is the one read last
HeaderRead == pc \notin {"schema", "precip"}

----------------------------------------------------------------------------
(* C1: after a successful run the rows of rainfall_intensity tile
   [grid[0], grid[-2]+step): each grid point but the last is the from_epoch
   of exactly one row, each row has thru_epoch = from_epoch + step, no two
   rows overlap or coincide, and each row ends where another begins or at
   the closing point. *)
C1_RainfallTiles ==
    pc = "committed" =>
        LET rows == durable.rainfall_intensity
            n == Len(time_grid) - 1
        IN  /\ \A i \in 1..n :
                  Cardinality({ k \in DOMAIN rows :
                                  rows[k].from_epoch = time_grid[i] }) = 1
            /\ \A k \in DOMAIN rows :
                  /\ rows[k].thru_epoch = rows[k].from_epoch + time_step
                  /\ \E i \in 1..n : rows[k].from_epoch = time_grid[i]
                  /\ \/ rows[k].thru_epoch = time_grid[n] + time_step
                     \/ \E l \in DOMAIN rows :
                           rows[l].from_epoch = rows[k].thru_epoch
            /\ \A k, l \in DOMAIN rows :
                  k # l => \/ rows[k].thru_epoch <= rows[l].from_epoch
                           \/ rows[l].thru_epoch <= rows[k].from_epoch

(* C2: whenever populate_grid_time returns (grid, step), step is a positive
   integer and the grid is strictly increasing with grid[i+1] - grid[i] =
   step for every i, the closing point included. *)
C2_GridUniform ==
    GridReturned =>
        /\ time_step > 0
        /\ \A i \in 1..(Len(time_grid) - 1) :
              /\ time_grid[i] < time_grid[i + 1]
              /\ time_grid[i + 1] - time_grid[i] = time_step

(* C3: when the rainfall epochs in the water-level window have the single
   spacing S, populate_grid_time returns step = S and a grid of k + 1
   points: the k rainfall epochs of the window in ascending order, then the
   closing point last + S. *)
C3_UniformGrid ==
    GridAttempted =>
        LET sp == Spacings
        IN  \A S \in sp :
                sp = {S} =>
                    LET k == Cardinality(WindowRows)
                    IN  /\ time_step = S
                        /\ Len(time_grid) = k + 1
                        /\ \A i \in 1..(k - 1) : time_grid[i] <= time_grid[i + 1]
                        /\ \A e \in Epochs :
                              Occurrences(SubSeq(time_grid, 1, k), e)
                                = Cardinality({ i \in WindowRows :
                                                  ris[i].epoch = e })
                        /\ time_grid[k + 1] = time_grid[k] + S

C3_Witness ==
    /\ pc = "committed"
    /\ \E S \in 1..EpochMax : Spacings = {S}
    /\ \E i \in DOMAIN ris : ~InWindow(ris[i].epoch)

(* C4: when the rainfall epochs in the window have more than one distinct
   consecutive difference, populate_grid_time raises the nonuniform-step
   ValueError naming those differences; the run never gets past it, nothing
   is committed and no grid, rainfall-interval or water-level row exists. *)
C4_NonuniformAborts ==
    StagedAll =>
        LET sp == Spacings
        IN  Cardinality(sp) > 1 =>
                /\ pc \in {"grid", "failed"}
                /\ pc = "failed" =>
                      /\ NonuniformError(error)
                      /\ { error.arg[i] : i \in DOMAIN error.arg } = sp
                      /\ Len(error.arg) = Cardinality(sp)
                /\ NothingAligned
                /\ time_grid = <<>> /\ time_step = Unassigned

C4_Witness ==
    /\ pc = "failed"
    /\ error.arg = <<1, 2>>
    /\ \A i, j \in DOMAIN ris : i # j => ris[i].epoch # ris[j].epoch

(* C5: a run either completes, and one commit makes everything visible, or
   fails and leaves the store as it was: nothing committed, nothing pending
   in an open transaction. *)
C5_Atomic ==
    /\ pc = "committed" => (durable = Snapshot /\ ~in_txn)
    /\ pc = "failed" => (durable = EmptyStore /\ ~in_txn)

(* C6, as claimed: a mismatched header of any of the three files makes the run
   fail before any data row of any file has been staged. *)
C6_HeaderBeforeAnyRow ==
    (HeaderRead /\ Mismatch(header)) =>
        /\ pc = "failed" /\ error.type = "AssertionError"
        /\ ris = <<>> /\ ets = <<>> /\ wls = <<>>

(* C6, amended: a mismatched header makes the run fail with the assertion
   error before any data row of that file, or of a file read after it, has
   been staged; the rows of the files read before it are staged already. *)
C6_HeaderBeforeOwnRows ==
    (HeaderRead /\ Mismatch(header)) =>
        /\ pc = "failed" /\ error.type = "AssertionError"
        /\ wls = <<>>
        /\ error.at \in {"precip", "et", "wl"}
        /\ error.at \in {"precip", "et"} => ets = <<>>
        /\ error.at = "precip" => ris = <<>>

C6_Witness ==
    /\ pc = "failed" /\ error.type = "AssertionError" /\ error.at = "wl"
    /\ Mismatch(header)
    /\ ris # <<>> /\ ets # <<>> /\ wls = <<>>

(* C7: a water_level row at a grid point whose epoch is the epoch of a staged
   water-level sample carries that sample's value, for every staged series
   with distinct epochs. *)
C7_ExactAtKnots ==
    (pc \in {"commit", "committed"}
       /\ \A a, b \in DOMAIN wls : a # b => wls[a].epoch # wls[b].epoch) =>
        \A k \in DOMAIN water_level : \A a \in DOMAIN wls :
            water_level[k].epoch = wls[a].epoch =>
                water_level[k].zeta_mm.num
                  = wls[a].val * water_level[k].zeta_mm.den

(* C8: after a successful run water_level has exactly one row for each grid
   point but the last and none for the closing point, so as many rows as
   rainfall_intensity. *)
C8_OneLevelPerGridPoint ==
    pc = "committed" =>
        LET rows == durable.water_level
            n == Len(time_grid) - 1
        IN  /\ \A i \in 1..n :
                  Cardinality({ k \in DOMAIN rows :
                                  rows[k].epoch = time_grid[i] }) = 1
            /\ \A k \in DOMAIN rows : rows[k].epoch # time_grid[n + 1]
            /\ Len(rows) = Len(durable.rainfall_intensity)

(* C9: every grid point at which the water level is interpolated lies in
   [min_w, max_w], and np.interp never takes its clamping branch (below the
   first or above the last knot) for any of them. *)
C9_NoClamping ==
    pc \in {"commit", "committed"} =>
        \A i \in 1..(Len(time_grid) - 1) :
            /\ InWindow(time_grid[i])
            /\ zeta_idx[i] \notin {-1, Len(wls)}

(* C10: with fewer than two staged rainfall epochs in the window,
   populate_grid_time raises the nonuniform-step ValueError (over an empty
   list of differences) before inserting into time_grid or grid_time; no
   step is adopted and the run does not reach commit. *)
C10_TooFewEpochs ==
    (StagedAll /\ Cardinality(WindowRows) < 2) =>
        /\ pc \in {"grid", "failed"}
        /\ pc = "failed" => (NonuniformError(error) /\ error.arg = <<>>)
        /\ NothingAligned
        /\ time_grid = <<>> /\ time_step = Unassigned

C10_Witness ==
    /\ pc = "failed" /\ error.at = "grid"
    /\ Cardinality(WindowRows) = 1
    /\ Len(ris) > 1

====
